---- MODULE Spec2Model ----
(***************************************************************************)
(* ROAST coordinator (roast-core/src/coordinator.rs) driven by a set of    *)
(* signers (src/signer.rs), as in the harness of roast-core/src/tests.rs.  *)
(*                                                                         *)
(* The FROST primitives are external to the repository and are modelled    *)
(* by their contracts: a signature share is the token                      *)
(* [kind |-> "Share", id, pkg] standing for "the share signer id computes  *)
(* over signing package pkg with the nonce whose commitment pkg holds for  *)
(* id"; it verifies for exactly that identifier and that package.  The    *)
(* all-zero share of tests.rs:148-151 verifies for nothing.  The message   *)
(* is fixed per coordinator, so a signing package is identified by its     *)
(* map of commitments.                                                     *)
(*                                                                         *)
(* Further specifications over the same variables, each leaving the        *)
(* objects it does not use absent: SpecNew (the constructors), SpecSigner  *)
(* (signers handed arbitrary signing packages), SpecRounds and SpecTtp     *)
(* (the TrustedThirdParty of roast-core/src/dkg.rs) and SpecParticipant    *)
(* (one Participant of the key generation), SpecDkg (the run of            *)
(* test_dkg_basic, tests.rs:23-95: a third party and its participants,    *)
(* whose locals are in run), SpecReceive (a coordinator called by its     *)
(* signers with any share and any commitment), SpecOutsider (the same,     *)
(* called also with an identifier outside the key package) and SpecOrder   *)
(* (SpecTtp with the statuses returned so far).  In these, call and result *)
(* hold the last call of the object at hand and what it returned, and      *)
(* history records what the callers have done so far.                      *)
(***************************************************************************)
EXTENDS Integers, FiniteSets, Sequences, TLC

\* ------------------------------------------------------------- bounds --
MaxSigners == 4       \* largest n the coordinator is created with
MaxAdversaries == 3   \* most signers that do not follow the protocol
MaxCommit == 1        \* commitments a misbehaving signer chooses among
MaxSessions == 5      \* cap on session_counter (never reached, see C1)
MaxParticipants == 3  \* longest participant list, largest participant identifier
MaxNonces == 3        \* shares a lone signer is asked for, commitments in its packages
MaxPackageSigners == 2   \* identifiers in the packages handed to a lone signer
MaxPolynomials == 2   \* secret polynomials a participant chooses among
MaxCount == 2         \* calls of one operation a history tells apart
MaxCallers == 3       \* largest n of a coordinator that anybody calls
MaxSupplied == 2      \* commitments its callers choose among

\* ---------------------------------------------------- program constants --
SessionIdModulus == 65536   \* type SessionId = u16

VARIABLES
    \* Coordinator fields (coordinator.rs:42-53)
    max_signers,
    min_signers,
    responsive_signers,
    malicious_signers,
    latest_signing_commitments,
    session_counter,
    signer_session,
    session,
    \* the last receive call and what it returned
    call,
    result,
    \* history: TooManyMaliciousSigners was returned; the number of Finished
    \* results per session (counted up to 2)
    too_many_returned,
    finished_count,
    \* the signers around the coordinator (tests.rs:124-137)
    malicious_mask,
    signers,
    signing_packages,
    \* history: the nonces each signature share of a Signer was produced from
    share_nonces,
    \* the TrustedThirdParty and a Participant of the key generation (dkg.rs)
    ttp,
    participant,
    \* the local variables of a run of the key generation (tests.rs:28-49)
    run,
    \* history: what the callers of the object at hand have done so far
    history

coordinator == <<max_signers, min_signers, responsive_signers, malicious_signers,
                 latest_signing_commitments, session_counter, signer_session, session>>

vars == <<max_signers, min_signers, responsive_signers, malicious_signers,
          latest_signing_commitments, session_counter, signer_session, session,
          call, result, too_many_returned, finished_count,
          malicious_mask, signers, signing_packages,
          share_nonces, ttp, participant, run, history>>

\* the state around the coordinator, and the key generation
harness == <<too_many_returned, finished_count, malicious_mask, signing_packages>>
dkg == <<ttp, participant, run>>

\* ------------------------------------------------------------ helpers --
EmptyMap == [x \in {} |-> 0]

\* Option<T>
None == <<>>
Some(value) == <<value>>

\* BTreeMap::insert
Insert(map, key, value) ==
    [x \in (DOMAIN map) \cup {key} |-> IF x = key THEN value ELSE map[x]]

\* Option<SignatureShare>: None, the all-zero share, or a share computed by
\* round2::sign for signer id over package pkg.
NoShare == [kind |-> "None", id |-> 0, pkg |-> EmptyMap]
ZeroShare == [kind |-> "Zero", id |-> 0, pkg |-> EmptyMap]
Share(id, pkg) == [kind |-> "Share", id |-> id, pkg |-> pkg]

\* IdentifierList::Default: the signers are 1..max_signers
Identifiers == 1 .. max_signers

\* public_key_package.verifying_shares(): one entry per signer of the key setup
VerifyingShares == Identifiers

\* ------------------------------------------------------------- Signer --
\* Signer::new: round1::commit generates the first nonces.  Nonces are
\* numbered in the order the signer generates them; the commitments of a
\* nonce carry its number.
SignerNew == [signing_nonces |-> 1]

\* Signer::signing_commitments
SigningCommitmentsOf(signer) == signer.signing_nonces

\* round2::sign(signing_package, nonces, key_package): fails unless the
\* package holds this signer's commitment for exactly these nonces.
Round2Sign(signing_package, id, signer) ==
    IF id \in DOMAIN signing_package
       /\ signing_package[id] = SigningCommitmentsOf(signer)
    THEN [ok |-> TRUE, share |-> Share(id, signing_package)]
    ELSE [ok |-> FALSE, share |-> NoShare]

\* Signer::receive without lines 49-50: the nonces are kept
SignerReceiveKeep(signing_package, id, signer) ==
    LET signed == Round2Sign(signing_package, id, signer)
    IN [ok |-> signed.ok, share |-> signed.share, signer |-> signer]

\* Signer::receive: sign, and only if signing succeeded (the `?` returns
\* early) generate new nonces.
SignerReceive(signing_package, id, signer) ==
    LET signed == Round2Sign(signing_package, id, signer)
    IN IF signed.ok
       THEN [ok |-> TRUE, share |-> signed.share,
             signer |-> [signing_nonces |-> signer.signing_nonces + 1]]
       ELSE [ok |-> FALSE, share |-> NoShare, signer |-> signer]

\* -------------------------------------------------------- Coordinator --
\* Coordinator::new, parameter validation
NewOk(n, t) == ~(t < 2) /\ ~(n < 2) /\ ~(t > n)

\* line 109 without the lookup
KnownMaliciousNever(identifier) == FALSE

\* line 109: self.malicious_signers.get(&identifier)
KnownMalicious(identifier) == identifier \in DOMAIN malicious_signers

\* line 113 without the lookup
IsResponsiveNever(identifier) == FALSE

\* line 113: self.responsive_signers.contains(&identifier)
IsResponsive(identifier) == identifier \in responsive_signers

\* lines 117-124 looking up the first session instead of the caller's
BoundSessionFirst(identifier) ==
    IF identifier \in DOMAIN signer_session /\ 1 \in DOMAIN session
    THEN 1
    ELSE 0

\* lines 117-124: signer_session.get(&identifier).and_then(|id| session.get_mut(id))
BoundSession(identifier) ==
    IF identifier \in DOMAIN signer_session
       /\ signer_session[identifier] \in DOMAIN session
    THEN signer_session[identifier]
    ELSE 0

\* lines 131-146 with a verification that accepts every share
VerifySignatureShareAny(identifier, signature_share, signing_package) == TRUE

\* lines 131-146: the verifying share lookup and verify_signature_share
VerifySignatureShare(identifier, signature_share, signing_package) ==
    /\ identifier \in VerifyingShares
    /\ identifier \in DOMAIN signing_package
    /\ signature_share = Share(identifier, signing_package)

\* line 156 with `>` for `==`
ShareQuorumLate(signature_shares) ==
    Cardinality(DOMAIN signature_shares) > min_signers

\* line 156 counting the share before it is inserted
ShareQuorumEarly(signature_shares) ==
    Cardinality(DOMAIN signature_shares) + 1 = min_signers

\* line 156: signature_shares.len() == self.min_signers
ShareQuorum(signature_shares) ==
    Cardinality(DOMAIN signature_shares) = min_signers

\* frost_core::aggregate: needs one share per commitment of the package, each
\* of them valid (lines 157-161)
AggregateOk(signing_package, signature_shares) ==
    /\ DOMAIN signature_shares = DOMAIN signing_package
    /\ \A id \in DOMAIN signature_shares :
           signature_shares[id] = Share(id, signing_package)

\* line 170 with `>` for `==`
ResponsiveQuorumLate(responsive) == Cardinality(responsive) > min_signers

\* line 170: responsive_signers.len() == self.min_signers
ResponsiveQuorum(responsive) == Cardinality(responsive) = min_signers

\* line 222 with `>=` for `>`
QuotaExceededAtLimit(malicious) ==
    Cardinality(DOMAIN malicious) >= max_signers - min_signers

\* line 222: malicious_signers.len() > max_signers - min_signers
QuotaExceeded(malicious) ==
    Cardinality(DOMAIN malicious) > max_signers - min_signers

\* line 199 with clone() for mem::take
ResponsiveCloned(responsive) == responsive

\* line 199: mem::take(&mut self.responsive_signers) leaves the empty set
ResponsiveTaken(responsive) == {}

\* lines 174-185 without the filter: every stored commitment
SigningPackageAll(responsive, latest) == latest

\* lines 174-185: the commitments of the responsive signers
SigningPackageNew(responsive, latest) ==
    [id \in {x \in responsive : x \in DOMAIN latest} |-> latest[id]]

\* What receive returns
Status(kind) ==
    [kind |-> kind, err |-> "", signers |-> {}, signing_package |-> EmptyMap]
Started(signers_, signing_package) ==
    [kind |-> "Started", err |-> "", signers |-> signers_,
     signing_package |-> signing_package]
ErrMaliciousSigner(err) ==
    [kind |-> "MaliciousSigner", err |-> err, signers |-> {},
     signing_package |-> EmptyMap]

Called(identifier, signature_share, signing_commitments, site) ==
    [identifier |-> identifier, session_id |-> BoundSession(identifier),
     site |-> site]

\* mark_malicious also removing the signer from responsive_signers
MarkMaliciousPurging(identifier, malicious_signer_error) ==
    LET marked == Insert(malicious_signers, identifier, malicious_signer_error)
    IN /\ malicious_signers' = marked
       /\ responsive_signers' = responsive_signers \ {identifier}
       /\ IF QuotaExceeded(marked)
          THEN /\ result' = Status("TooManyMaliciousSigners")
               /\ too_many_returned' = TRUE
          ELSE /\ result' = ErrMaliciousSigner(malicious_signer_error)
               /\ UNCHANGED too_many_returned
       /\ UNCHANGED <<max_signers, min_signers,
                      latest_signing_commitments, session_counter,
                      signer_session, session, finished_count>>

\* Coordinator::mark_malicious (lines 214-227), with the return of receive
MarkMalicious(identifier, malicious_signer_error) ==
    LET marked == Insert(malicious_signers, identifier, malicious_signer_error)
    IN /\ malicious_signers' = marked
       /\ IF QuotaExceeded(marked)
          THEN /\ result' = Status("TooManyMaliciousSigners")
               /\ too_many_returned' = TRUE
          ELSE /\ result' = ErrMaliciousSigner(malicious_signer_error)
               /\ UNCHANGED too_many_returned
       /\ UNCHANGED <<max_signers, min_signers, responsive_signers,
                      latest_signing_commitments, session_counter,
                      signer_session, session, finished_count>>

\* lines 166-167 keeping a commitment that is already stored
RegisteredOnce(latest, identifier, signing_commitments) ==
    IF identifier \in DOMAIN latest THEN latest
    ELSE Insert(latest, identifier, signing_commitments)

\* lines 166-167: self.latest_signing_commitments.insert(identifier, ..)
Registered(latest, identifier, signing_commitments) ==
    Insert(latest, identifier, signing_commitments)

\* lines 171-172 counting in steps of two
NextSessionIdSkipping(counter) == (counter + 2) % SessionIdModulus

\* lines 171-172: self.session_counter += 1 on a u16
NextSessionId(counter) == (counter + 1) % SessionIdModulus

\* Coordinator::receive, lines 166-206: register the commitment, open a
\* session when the responsive signers reach the threshold
Register(identifier, signature_share, signing_commitments, session1) ==
    LET latest == Registered(latest_signing_commitments, identifier,
                             signing_commitments)
        responsive == responsive_signers \cup {identifier}
        session_id == NextSessionId(session_counter)
        signing_package == SigningPackageNew(responsive, latest)
    IN /\ latest_signing_commitments' = latest
       /\ UNCHANGED <<max_signers, min_signers, malicious_signers,
                      too_many_returned>>
       /\ IF ResponsiveQuorum(responsive)
          THEN /\ session_counter < MaxSessions
               /\ session_counter' = session_id
               /\ signer_session' =
                      [id \in (DOMAIN signer_session) \cup responsive |->
                          IF id \in responsive THEN session_id
                          ELSE signer_session[id]]
               /\ session' = Insert(session1, session_id,
                                    [signing_package |-> signing_package,
                                     signature_shares |-> EmptyMap])
               /\ finished_count' = Insert(finished_count, session_id, 0)
               /\ responsive_signers' = ResponsiveTaken(responsive)
               /\ call' = Called(identifier, signature_share,
                                 signing_commitments, "started")
               /\ result' = Started(responsive, signing_package)
          ELSE /\ responsive_signers' = responsive
               /\ session' = session1
               /\ UNCHANGED <<session_counter, signer_session, finished_count>>
               /\ call' = Called(identifier, signature_share,
                                 signing_commitments, "in_progress")
               /\ result' = Status("InProgress")

\* Coordinator::receive (lines 103-207)
Receive(identifier, signature_share, signing_commitments) ==
    LET sid == BoundSession(identifier) IN
    IF KnownMalicious(identifier) THEN
        /\ call' = Called(identifier, signature_share, signing_commitments, "known")
        /\ result' = ErrMaliciousSigner(malicious_signers[identifier])
        /\ UNCHANGED <<coordinator, too_many_returned, finished_count>>
    ELSE IF IsResponsive(identifier) THEN
        /\ call' = Called(identifier, signature_share, signing_commitments,
                          "unsolicited")
        /\ MarkMalicious(identifier, "UnsolicitedReply")
    ELSE IF sid # 0 /\ signature_share.kind = "None" THEN
        /\ call' = Called(identifier, signature_share, signing_commitments,
                          "missing")
        /\ MarkMalicious(identifier, "InvalidSignatureShare")
    ELSE IF sid # 0 /\ ~VerifySignatureShare(identifier, signature_share,
                                             session[sid].signing_package) THEN
        /\ call' = Called(identifier, signature_share, signing_commitments,
                          "invalid")
        /\ MarkMalicious(identifier, "InvalidSignatureShare")
    ELSE
        LET session1 ==
                IF sid # 0
                THEN [session EXCEPT ![sid].signature_shares =
                          Insert(@, identifier, signature_share)]
                ELSE session
        IN IF sid # 0 /\ ShareQuorum(session1[sid].signature_shares)
           THEN /\ session' = session1
                /\ UNCHANGED <<max_signers, min_signers, responsive_signers,
                               malicious_signers, latest_signing_commitments,
                               session_counter, signer_session,
                               too_many_returned>>
                /\ IF AggregateOk(session1[sid].signing_package,
                                  session1[sid].signature_shares)
                   THEN /\ call' = Called(identifier, signature_share,
                                          signing_commitments, "finished")
                        /\ result' = Status("Finished")
                        /\ finished_count' =
                               [finished_count EXCEPT
                                   ![sid] = IF @ < 2 THEN @ + 1 ELSE @]
                   ELSE /\ call' = Called(identifier, signature_share,
                                          signing_commitments, "aggregate")
                        /\ result' = Status("Frost")
                        /\ UNCHANGED finished_count
           ELSE Register(identifier, signature_share, signing_commitments,
                         session1)

\* ------------------------------------------------------ the transport --
\* tests.rs:159-167: a Started result hands the signing package to every
\* signer of the session; the caller's previous package was consumed.  Only
\* the packages of the signers that follow the protocol are kept: the
\* others choose their shares freely (ShareInputs).
Deliver(packages, identifier, status) ==
    [id \in DOMAIN packages |->
        IF id \in malicious_mask THEN EmptyMap
        ELSE IF status.kind = "Started" /\ id \in status.signers
        THEN status.signing_package
        ELSE IF id = identifier THEN EmptyMap ELSE packages[id]]

\* An honest signer sends its first commitment, with no share.
HonestCommit(identifier) ==
    /\ identifier \in Identifiers \ malicious_mask
    /\ identifier \notin DOMAIN latest_signing_commitments
    /\ Receive(identifier, NoShare, SigningCommitmentsOf(signers[identifier]))
    /\ signing_packages' = Deliver(signing_packages, identifier, result')
    /\ UNCHANGED <<malicious_mask, signers, share_nonces, dkg, history>>

\* An honest signer answers the signing package it was sent: the share of
\* Signer::receive and the commitment of its new nonces (tests.rs:153-156).
HonestReply(identifier) ==
    /\ identifier \in Identifiers \ malicious_mask
    /\ signing_packages[identifier] # EmptyMap
    /\ LET reply == SignerReceive(signing_packages[identifier], identifier,
                                  signers[identifier])
       IN /\ Receive(identifier, reply.share, SigningCommitmentsOf(reply.signer))
          /\ signers' = [signers EXCEPT ![identifier] = reply.signer]
    /\ signing_packages' = Deliver(signing_packages, identifier, result')
    /\ UNCHANGED <<malicious_mask, share_nonces, dkg, history>>

\* The shares a misbehaving signer can send: none, the zero share, or its
\* share for the package of any session opened so far.
ShareInputs(identifier) ==
    {NoShare, ZeroShare}
        \cup {Share(identifier, session[s].signing_package) : s \in DOMAIN session}

\* A signer that does not follow the protocol calls receive with anything.
AdversaryReceive(identifier) ==
    /\ identifier \in malicious_mask
    /\ \E signature_share \in ShareInputs(identifier) :
       \E signing_commitments \in 1 .. MaxCommit :
           Receive(identifier, signature_share, signing_commitments)
    /\ signing_packages' = Deliver(signing_packages, identifier, result')
    /\ UNCHANGED <<malicious_mask, signers, share_nonces, dkg, history>>

\* ----------------------------------------------------- specification --
\* A coordinator created by Coordinator::new for any valid (n, t), and the
\* n signers of tests.rs.  The misbehaving signers are the first k
\* identifiers, the mask of tests.rs:133-134 before it is shuffled
\* (receive treats all identifiers alike).
Init ==
    /\ max_signers \in 2 .. MaxSigners
    /\ min_signers \in 2 .. MaxSigners
    /\ NewOk(max_signers, min_signers)
    /\ responsive_signers = {}
    /\ malicious_signers = EmptyMap
    /\ latest_signing_commitments = EmptyMap
    /\ session_counter = 0
    /\ signer_session = EmptyMap
    /\ session = EmptyMap
    /\ call = [identifier |-> 0, session_id |-> 0, site |-> "new"]
    /\ result = Status("None")
    /\ too_many_returned = FALSE
    /\ finished_count = EmptyMap
    /\ malicious_mask \in {1 .. k : k \in 0 .. MaxAdversaries} \cap SUBSET Identifiers
    /\ signers = [id \in Identifiers |-> SignerNew]
    /\ signing_packages = [id \in Identifiers |-> EmptyMap]
    /\ share_nonces = <<>>
    /\ ttp = None
    /\ participant = None
    /\ run = None
    /\ history = None

Next ==
    \E identifier \in 1 .. MaxSigners :
        \/ HonestCommit(identifier)
        \/ HonestReply(identifier)
        \/ AdversaryReceive(identifier)

Spec == Init /\ [][Next]_vars

\* At least t signers follow the protocol, and each of them is eventually
\* scheduled (the loop of tests.rs:140-176 visits every signer in turn).
InitLive ==
    /\ Init
    /\ Cardinality(malicious_mask) <= max_signers - min_signers

Fairness ==
    \A identifier \in 1 .. MaxSigners :
        /\ WF_vars(HonestCommit(identifier))
        /\ WF_vars(HonestReply(identifier))

SpecLive == InitLive /\ [][Next]_vars /\ Fairness

\* -------------------------------------------------------- any caller --
\* A coordinator called in any order with the identifiers of its n signers,
\* every share of ShareInputs and any commitment, until a call returns
\* Finished (the loop of tests.rs:140-176 ends there).  history
\* keeps the arguments of the last call, per identifier the commitment of
\* its last call, the commitment of its last accepted call and the number
\* of such calls, and per session the signers of its Started result, each
\* with the number of its calls accepted until then.
\* a call is accepted when its commitment is registered (lines 166-168)
Accepted(status) == status.kind \in {"InProgress", "Started"}

InitReceive ==
    /\ max_signers \in 2 .. MaxCallers
    /\ min_signers \in 2 .. MaxCallers
    /\ NewOk(max_signers, min_signers)
    /\ responsive_signers = {}
    /\ malicious_signers = EmptyMap
    /\ latest_signing_commitments = EmptyMap
    /\ session_counter = 0
    /\ signer_session = EmptyMap
    /\ session = EmptyMap
    /\ call = [identifier |-> 0, session_id |-> 0, site |-> "new"]
    /\ result = Status("None")
    /\ too_many_returned = FALSE
    /\ finished_count = EmptyMap
    /\ malicious_mask = {}
    /\ signers = EmptyMap
    /\ signing_packages = EmptyMap
    /\ share_nonces = <<>>
    /\ ttp = None
    /\ participant = None
    /\ run = None
    /\ history = [arguments |-> [identifier |-> 0, signature_share |-> NoShare,
                                 signing_commitments |-> 0],
                  supplied |-> EmptyMap,
                  accepted |-> EmptyMap,
                  receipts |-> [id \in Identifiers |-> 0],
                  opened |-> EmptyMap]

ReceiveAny(identifier, signature_share, signing_commitments) ==
    /\ result.kind # "Finished"
    /\ Receive(identifier, signature_share, signing_commitments)
    /\ LET receipts == IF Accepted(result')
                       THEN [history.receipts EXCEPT ![identifier] = @ + 1]
                       ELSE history.receipts
       IN history' =
              [arguments |-> [identifier |-> identifier,
                              signature_share |-> signature_share,
                              signing_commitments |-> signing_commitments],
               supplied |-> Insert(history.supplied, identifier,
                                   signing_commitments),
               accepted |-> IF Accepted(result')
                            THEN Insert(history.accepted, identifier,
                                        signing_commitments)
                            ELSE history.accepted,
               receipts |-> receipts,
               opened |-> IF result'.kind = "Started"
                          THEN Insert(history.opened, session_counter',
                                      [id \in result'.signers |-> receipts[id]])
                          ELSE history.opened]
    /\ UNCHANGED <<malicious_mask, signers, signing_packages, share_nonces, dkg>>

NextReceive ==
    \E identifier \in 1 .. MaxCallers :
        /\ identifier \in Identifiers
        /\ \E signature_share \in ShareInputs(identifier) :
           \E signing_commitments \in 1 .. MaxSupplied :
               ReceiveAny(identifier, signature_share, signing_commitments)

SpecReceive == InitReceive /\ [][NextReceive]_vars

\* ------------------------------------------------ an unknown caller --
\* The same coordinator, called also with the identifier n + 1, which has no
\* verifying share in the public key package (receive takes any Identifier,
\* lines 103-108).
InitOutsider ==
    /\ max_signers \in 2 .. MaxCallers
    /\ min_signers \in 2 .. MaxCallers
    /\ NewOk(max_signers, min_signers)
    /\ responsive_signers = {}
    /\ malicious_signers = EmptyMap
    /\ latest_signing_commitments = EmptyMap
    /\ session_counter = 0
    /\ signer_session = EmptyMap
    /\ session = EmptyMap
    /\ call = [identifier |-> 0, session_id |-> 0, site |-> "new"]
    /\ result = Status("None")
    /\ too_many_returned = FALSE
    /\ finished_count = EmptyMap
    /\ malicious_mask = {}
    /\ signers = EmptyMap
    /\ signing_packages = EmptyMap
    /\ share_nonces = <<>>
    /\ ttp = None
    /\ participant = None
    /\ run = None
    /\ history = None

ReceiveOutsider(identifier, signature_share, signing_commitments) ==
    /\ result.kind # "Finished"
    /\ Receive(identifier, signature_share, signing_commitments)
    /\ UNCHANGED <<malicious_mask, signers, signing_packages, share_nonces,
                   dkg, history>>

NextOutsider ==
    \E identifier \in 1 .. MaxCallers + 1 :
        /\ identifier \in 1 .. max_signers + 1
        /\ \E signature_share \in ShareInputs(identifier) :
           \E signing_commitments \in 1 .. MaxCommit :
               ReceiveOutsider(identifier, signature_share, signing_commitments)

SpecOutsider == InitOutsider /\ [][NextOutsider]_vars

\* ------------------------------------------------------- constructors --
\* the parameter checks without the third one
ParameterErrorUnordered(n, t) ==
    IF t < 2 THEN "InvalidMinSigners"
    ELSE IF n < 2 THEN "InvalidMaxSigners"
    ELSE ""

\* coordinator.rs:63-73 and dkg.rs:54-64: min_signers < 2, max_signers < 2,
\* min_signers > max_signers, in this order; "" when all three pass
ParameterError(n, t) ==
    IF t < 2 THEN "InvalidMinSigners"
    ELSE IF n < 2 THEN "InvalidMaxSigners"
    ELSE IF t > n THEN "InvalidMinSigners"
    ELSE ""

\* Result<Self, Error<C>>
Err(kind, err) == [kind |-> kind, err |-> err, object |-> None]
Ok(object) == [kind |-> "Ok", err |-> "", object |-> Some(object)]

\* Coordinator::new
CoordinatorNew(n, t) ==
    IF ParameterError(n, t) # "" THEN Err("Frost", ParameterError(n, t))
    ELSE Ok([max_signers |-> n,
             min_signers |-> t,
             responsive_signers |-> {},
             malicious_signers |-> EmptyMap,
             latest_signing_commitments |-> EmptyMap,
             session_counter |-> 0,
             signer_session |-> EmptyMap,
             session |-> EmptyMap])

\* BTreeSet::from_iter(participants)
Range(list) == {list[i] : i \in DOMAIN list}

\* TrustedThirdParty::new
TrustedThirdPartyNew(n, t, participants) ==
    IF ParameterError(n, t) # "" THEN Err("Frost", ParameterError(n, t))
    ELSE IF Cardinality(Range(participants)) # Len(participants)
    THEN Err("Dkg", "DuplicateParticipants")
    ELSE Ok([max_signers |-> n,
             min_signers |-> t,
             participants |-> participants,
             participants_set |-> Range(participants),
             round1_packages |-> EmptyMap,
             round2_packages |-> EmptyMap,
             round2_participants_set |-> {},
             round2_culprits_set |-> {}])

\* Vec<Identifier>: the lists of at most MaxParticipants identifiers
ParticipantLists ==
    UNION {[1 .. k -> 1 .. MaxParticipants] : k \in 0 .. MaxParticipants}

\* no coordinator and no signers: the specifications of the other objects
NoCoordinator ==
    /\ max_signers = 0
    /\ min_signers = 0
    /\ responsive_signers = {}
    /\ malicious_signers = EmptyMap
    /\ latest_signing_commitments = EmptyMap
    /\ session_counter = 0
    /\ signer_session = EmptyMap
    /\ session = EmptyMap
    /\ too_many_returned = FALSE
    /\ finished_count = EmptyMap
    /\ malicious_mask = {}
    /\ signing_packages = EmptyMap

NoCall == [site |-> "none"]

\* Nothing is constructed yet.
InitNew ==
    /\ NoCoordinator
    /\ signers = EmptyMap
    /\ share_nonces = <<>>
    /\ ttp = None
    /\ participant = None
    /\ run = None
    /\ history = None
    /\ call = NoCall
    /\ result = Err("None", "")

\* A caller constructs a coordinator with any parameters.
NewCoordinator ==
    /\ call = NoCall
    /\ \E n \in 0 .. MaxSigners : \E t \in 0 .. MaxSigners :
           /\ call' = [site |-> "Coordinator::new", max_signers |-> n,
                       min_signers |-> t, participants |-> <<>>]
           /\ result' = CoordinatorNew(n, t)
    /\ UNCHANGED <<coordinator, harness, signers, share_nonces, dkg, history>>

\* A caller constructs a trusted third party with any parameters.
NewTrustedThirdParty ==
    /\ call = NoCall
    /\ \E n \in 0 .. MaxSigners : \E t \in 0 .. MaxSigners :
       \E participants \in ParticipantLists :
           /\ call' = [site |-> "TrustedThirdParty::new", max_signers |-> n,
                       min_signers |-> t, participants |-> participants]
           /\ result' = TrustedThirdPartyNew(n, t, participants)
    /\ UNCHANGED <<coordinator, harness, signers, share_nonces, dkg, history>>

NextNew == NewCoordinator \/ NewTrustedThirdParty

SpecNew == InitNew /\ [][NextNew]_vars

\* ------------------------------------------------------ a lone signer --
\* SigningPackage: any map from identifiers to commitments
SignerPackages ==
    UNION {[ids -> 1 .. MaxNonces] : ids \in SUBSET (1 .. MaxPackageSigners)}

\* Signers created by Signer::new, no coordinator.
InitSigner ==
    /\ NoCoordinator
    /\ signers = [id \in 1 .. MaxPackageSigners |-> SignerNew]
    /\ share_nonces = <<>>
    /\ ttp = None
    /\ participant = None
    /\ run = None
    /\ history = None
    /\ call = NoCall
    /\ result = Err("None", "")

\* Signer::receive called with any signing package; share_nonces records
\* the nonces round2::sign was given for each share it returned.
SignerReceives(identifier) ==
    /\ identifier \in DOMAIN signers
    /\ \E signing_package \in SignerPackages :
           LET signer == signers[identifier]
               reply == SignerReceive(signing_package, identifier, signer)
           IN /\ reply.ok => Len(share_nonces) < MaxNonces
              /\ signers' = [signers EXCEPT ![identifier] = reply.signer]
              /\ call' = [site |-> "Signer::receive",
                          identifier |-> identifier,
                          signing_package |-> signing_package]
              /\ result' = IF reply.ok THEN Ok(reply.share)
                                       ELSE Err("Frost", "sign")
              /\ share_nonces' =
                     IF reply.ok
                     THEN Append(share_nonces,
                                 [identifier |-> identifier,
                                  signing_nonces |-> signer.signing_nonces,
                                  signature_share |-> reply.share])
                     ELSE share_nonces
    /\ UNCHANGED <<coordinator, harness, dkg, history>>

NextSigner == \E identifier \in 1 .. MaxPackageSigners : SignerReceives(identifier)

SpecSigner == InitSigner /\ [][NextSigner]_vars

\* ------------------------------------------- the trusted third party --
\* The operations of the third party leave run and history to the
\* specification they are part of.
\* The key generation primitives are external and modelled by their
\* contracts.  A round-1 package commits to one secret polynomial, has a
\* number of coefficients and a proof of knowledge that verifies or not.  A
\* round-2 signing share is the value of a polynomial at an identifier; the
\* all-zero share of tests.rs:56-57 is the value of none.
Round1Packages ==
    [commitment : 1 .. MaxPolynomials,
     coefficients : 2 .. MaxParticipants,
     proof_of_knowledge : BOOLEAN]

SecretShareOf(polynomial, at) == [polynomial |-> polynomial, at |-> at]
ZeroSecretShare == SecretShareOf(0, 0)

\* the round-2 packages of a sender with polynomial 1 for some recipients,
\* the shares for the recipients in zeroed replaced by the zero share
Round2Map(recipients, zeroed) ==
    [r \in recipients |->
        IF r \in zeroed THEN ZeroSecretShare ELSE SecretShareOf(1, r)]

Round2Maps ==
    {Round2Map(recipients, zeroed) :
        recipients \in SUBSET (1 .. MaxParticipants),
        zeroed \in SUBSET (1 .. MaxParticipants)}

\* dkg::verify_proof_of_knowledge (lines 125-129)
VerifyProofOfKnowledge(identifier, round1_package) ==
    round1_package.proof_of_knowledge

\* verify() accepting every share
SecretShareVerifyAny(identifier, f_ell_i, commitment) == TRUE

\* SecretShare::new(identifier, f_ell_i, commitment).verify()
\* (lines 237-239 and 377-379)
SecretShareVerify(identifier, f_ell_i, commitment) ==
    /\ f_ell_i.polynomial = commitment
    /\ f_ell_i.at = identifier

\* Ok(DkgStatus::...)
DkgStatus(status) == Ok(status)

\* line 133 with min_signers for max_signers
Round1FinishedAtThreshold(stored) ==
    Cardinality(DOMAIN stored.round1_packages) = stored.min_signers

\* line 133: self.round1_packages.len() == self.max_signers
Round1Finished(stored) ==
    Cardinality(DOMAIN stored.round1_packages) = stored.max_signers

\* line 181 counting the recipients of round2_packages
Round2FinishedByRecipients(stored) ==
    Cardinality(DOMAIN stored.round2_packages) = stored.max_signers

\* line 181: self.round2_participants_set.len() == self.max_signers
Round2Finished(stored) ==
    Cardinality(stored.round2_participants_set) = stored.max_signers

\* line 256 without the negation
NoCulpritsInverted(round2_culprits_set) == round2_culprits_set # {}

\* line 256: self.round2_culprits_set.is_empty()
NoCulprits(round2_culprits_set) == round2_culprits_set = {}

\* the membership test taking every identifier for a participant
KnownParticipantAny(stored, identifier) == TRUE

\* lines 117, 155, 214, 220: self.participants_set.contains(&identifier)
KnownParticipant(stored, identifier) == identifier \in stored.participants_set

\* TrustedThirdParty::receive_round1_package
ReceiveRound1Package(identifier, round1_package) ==
    /\ call' = [site |-> "receive_round1_package",
                identifier |-> identifier,
                round1_package |-> round1_package,
                replaced |-> identifier \in DOMAIN ttp.round1_packages]
    /\ IF ~KnownParticipant(ttp, identifier) THEN
           /\ result' = Err("Dkg", "UnknownParticipant")
           /\ UNCHANGED ttp
       ELSE IF round1_package.coefficients # ttp.min_signers THEN
           /\ result' = Err("Frost", "IncorrectNumberOfCommitments")
           /\ UNCHANGED ttp
       ELSE IF ~VerifyProofOfKnowledge(identifier, round1_package) THEN
           /\ result' = Err("Frost", "InvalidProofOfKnowledge")
           /\ UNCHANGED ttp
       ELSE
           LET stored == [ttp EXCEPT !.round1_packages =
                              Insert(@, identifier, round1_package)]
           IN /\ ttp' = stored
              /\ result' = IF Round1Finished(stored)
                           THEN DkgStatus("FinishedRound1")
                           ELSE DkgStatus("InProgress")
    /\ UNCHANGED <<coordinator, harness, signers, share_nonces, participant>>

\* lines 172-177 inserting under the receiver's identifier
RoutedByReceiver(stored_packages, identifier, round2_packages) ==
    [r \in (DOMAIN stored_packages) \cup (DOMAIN round2_packages) |->
        IF r \in DOMAIN round2_packages
        THEN Insert(IF r \in DOMAIN stored_packages THEN stored_packages[r]
                    ELSE EmptyMap,
                    r, round2_packages[r])
        ELSE stored_packages[r]]

\* lines 172-177: round2_packages.entry(receiver).or_default().insert(sender, ..)
Routed(stored_packages, identifier, round2_packages) ==
    [r \in (DOMAIN stored_packages) \cup (DOMAIN round2_packages) |->
        IF r \in DOMAIN round2_packages
        THEN Insert(IF r \in DOMAIN stored_packages THEN stored_packages[r]
                    ELSE EmptyMap,
                    identifier, round2_packages[r])
        ELSE stored_packages[r]]

\* TrustedThirdParty::receive_round2_packages
ReceiveRound2Packages(identifier, round2_packages) ==
    /\ call' = [site |-> "receive_round2_packages",
                identifier |-> identifier,
                repeated |-> identifier \in ttp.round2_participants_set]
    /\ IF ~KnownParticipant(ttp, identifier) THEN
           /\ result' = Err("Dkg", "UnknownParticipant")
           /\ UNCHANGED ttp
       ELSE IF Cardinality(DOMAIN round2_packages) # ttp.max_signers - 1 THEN
           /\ result' = Err("Frost", "IncorrectNumberOfPackages")
           /\ UNCHANGED ttp
       ELSE IF \E id \in Range(ttp.participants) :
                   id # identifier /\ id \notin DOMAIN round2_packages THEN
           /\ result' = Err("Frost", "IncorrectPackage")
           /\ UNCHANGED ttp
       ELSE
           LET stored == [ttp EXCEPT
                             !.round2_packages =
                                 Routed(@, identifier, round2_packages),
                             !.round2_participants_set = @ \cup {identifier}]
           IN /\ ttp' = stored
              /\ result' = IF Round2Finished(stored)
                           THEN DkgStatus("FinishedRound2")
                           ELSE DkgStatus("InProgress")
    /\ UNCHANGED <<coordinator, harness, signers, share_nonces, participant>>

\* lines 225-244: the senders of the packages stored for identifier are
\* visited in ascending order; an accused sender without a round-1 package
\* ends the call (the `?` of line 234), the accused senders before it have
\* been checked
Visited(stored_for, round2_culprits, round1_packages) ==
    LET accused == {ell \in DOMAIN stored_for : ell \in round2_culprits}
        missing == {ell \in accused : ell \notin DOMAIN round1_packages}
    IN {ell \in accused : \A m \in missing : ell < m}

\* TrustedThirdParty::receive_round2_culprits
ReceiveRound2Culprits(identifier, round2_culprits) ==
    /\ call' = [site |-> "receive_round2_culprits",
                identifier |-> identifier,
                round2_culprits |-> round2_culprits]
    /\ IF ~KnownParticipant(ttp, identifier) THEN
           /\ result' = Err("Dkg", "UnknownParticipant")
           /\ UNCHANGED ttp
       ELSE IF \E id \in round2_culprits : ~KnownParticipant(ttp, id) THEN
           /\ result' = Err("Dkg", "UnknownParticipant")
           /\ UNCHANGED ttp
       ELSE
           LET stored_for == IF identifier \in DOMAIN ttp.round2_packages
                             THEN ttp.round2_packages[identifier]
                             ELSE EmptyMap
               accused == {ell \in DOMAIN stored_for : ell \in round2_culprits}
               visited == Visited(stored_for, round2_culprits,
                                  ttp.round1_packages)
               culprits ==
                   {ell \in visited :
                       ~SecretShareVerify(identifier, stored_for[ell],
                            ttp.round1_packages[ell].commitment)}
           IN /\ ttp' = [ttp EXCEPT !.round2_culprits_set = @ \cup culprits]
              /\ result' = IF visited # accused
                           THEN Err("Frost", "PackageNotFound")
                           ELSE DkgStatus("InProgress")
    /\ UNCHANGED <<coordinator, harness, signers, share_nonces, participant>>

\* TrustedThirdParty::try_finish
TryFinish ==
    /\ call' = [site |-> "try_finish"]
    /\ result' = IF NoCulprits(ttp.round2_culprits_set)
                 THEN DkgStatus("FinishedRound3")
                 ELSE Err("Dkg", "InvalidSecretShares")
    /\ UNCHANGED <<coordinator, harness, signers, share_nonces, ttp, participant>>

\* IdentifierList::Default: the participants are 1 .. k
DefaultParticipants == {[i \in 1 .. k |-> i] : k \in 2 .. MaxParticipants}

\* A third party created by TrustedThirdParty::new for any valid (n, t) and
\* a list of participants, which need not have n members.
InitTtp ==
    /\ NoCoordinator
    /\ signers = EmptyMap
    /\ share_nonces = <<>>
    /\ participant = None
    /\ run = None
    /\ history = None
    /\ call = NoCall
    /\ result = Err("None", "")
    /\ \E n \in 2 .. MaxParticipants : \E t \in 2 .. MaxParticipants :
       \E participants \in DefaultParticipants :
           LET created == TrustedThirdPartyNew(n, t, participants)
           IN /\ created.kind = "Ok"
              /\ ttp = created.object[1]

\* Rounds 1 and 2 with any round-1 packages; the shares are not looked at.
\* history holds the map handed to the last receive_round2_packages call.
NextRounds ==
    /\ \E identifier \in 1 .. MaxParticipants :
           \/ /\ \E round1_package \in Round1Packages :
                      ReceiveRound1Package(identifier, round1_package)
              /\ UNCHANGED history
           \/ \E recipients \in SUBSET (1 .. MaxParticipants) :
                  /\ ReceiveRound2Packages(identifier, Round2Map(recipients, {}))
                  /\ history' = Round2Map(recipients, {})
    /\ UNCHANGED run

SpecRounds == InitTtp /\ [][NextRounds]_vars

\* The set-up of tests.rs:28-39: n participants; the threshold plays no
\* part once the round-1 packages are well-formed.
InitCulprits ==
    /\ InitTtp
    /\ ttp.min_signers = 2
    /\ Len(ttp.participants) = ttp.max_signers

\* All operations in any order, every participant with a well-formed
\* round-1 package for its polynomial, and any mix of its shares and zero
\* shares in round 2 (tests.rs:55-58).
NextTtp ==
    /\ \/ \E identifier \in 1 .. MaxParticipants :
              \/ ReceiveRound1Package(identifier,
                     [commitment |-> 1, coefficients |-> ttp.min_signers,
                      proof_of_knowledge |-> TRUE])
              \/ \E round2_packages \in Round2Maps :
                     ReceiveRound2Packages(identifier, round2_packages)
              \/ \E round2_culprits \in SUBSET (1 .. MaxParticipants) :
                     ReceiveRound2Culprits(identifier, round2_culprits)
       \/ TryFinish
    /\ UNCHANGED <<run, history>>

SpecTtp == InitCulprits /\ [][NextTtp]_vars

\* The same third parties and calls, with history listing the Finished
\* statuses returned so far (DkgStatus, lines 19-28), each once, in the
\* order of their first return.
Returned(statuses, returned) ==
    IF /\ returned.kind = "Ok"
       /\ returned.object[1] # "InProgress"
       /\ returned.object[1] \notin Range(statuses)
    THEN Append(statuses, returned.object[1])
    ELSE statuses

NextOrder ==
    /\ \/ \E identifier \in 1 .. MaxParticipants :
              \/ ReceiveRound1Package(identifier,
                     [commitment |-> 1, coefficients |-> ttp.min_signers,
                      proof_of_knowledge |-> TRUE])
              \/ \E round2_packages \in Round2Maps :
                     ReceiveRound2Packages(identifier, round2_packages)
              \/ \E round2_culprits \in SUBSET (1 .. MaxParticipants) :
                     ReceiveRound2Culprits(identifier, round2_culprits)
       \/ TryFinish
    /\ history' = Returned(history, result')
    /\ UNCHANGED run

SpecOrder == InitCulprits /\ [][NextOrder]_vars

\* -------------------------------------------------------- Participant --
\* Participant::new: dkg::part1 chooses the polynomial (valid (n, t) only)
ParticipantNew(identifier, n, t, polynomial) ==
    [identifier |-> identifier,
     max_signers |-> n,
     round1_secret_package |->
         Some([polynomial |-> polynomial, max_signers |-> n, min_signers |-> t]),
     round1_package |->
         Some([commitment |-> polynomial, coefficients |-> t,
               proof_of_knowledge |-> TRUE]),
     round2_secret_package |-> None,
     round2_packages |-> None,
     round1_packages |-> None,
     round2_culprits_set |-> None]

\* BTreeMap::remove
Remove(map, key) == [x \in (DOMAIN map) \ {key} |-> map[x]]

\* dkg::part2 without the test of the number of packages
Part2ErrorUnsized(round1_secret_package, round1_packages) ==
    IF \E id \in DOMAIN round1_packages :
           ~VerifyProofOfKnowledge(id, round1_packages[id])
    THEN "InvalidProofOfKnowledge"
    ELSE ""

\* dkg::part2 (line 328): needs the packages of the n - 1 others, each with
\* a proof of knowledge that verifies; returns the shares of the secret
\* polynomial for their senders
Part2Error(round1_secret_package, round1_packages) ==
    IF Cardinality(DOMAIN round1_packages) # round1_secret_package.max_signers - 1
    THEN "IncorrectNumberOfPackages"
    ELSE IF \E id \in DOMAIN round1_packages :
                ~VerifyProofOfKnowledge(id, round1_packages[id])
    THEN "InvalidProofOfKnowledge"
    ELSE ""

Part2Packages(round1_secret_package, round1_packages) ==
    [id \in DOMAIN round1_packages |->
        SecretShareOf(round1_secret_package.polynomial, id)]

\* lines 365-382 returning at the first share that fails
Round3CulpritsFirst(identifier, round1_packages, round2_packages) ==
    LET failing == {ell \in DOMAIN round2_packages :
                       ~SecretShareVerify(identifier, round2_packages[ell],
                                          round1_packages[ell].commitment)}
    IN {ell \in failing : \A other \in failing : ell <= other}

\* lines 365-382: the senders whose share fails verification against the
\* commitment of their stashed round-1 package
Round3Culprits(identifier, round1_packages, round2_packages) ==
    {ell \in DOMAIN round2_packages :
        ~SecretShareVerify(identifier, round2_packages[ell],
                           round1_packages[ell].commitment)}

\* dkg::part3 leaving the participant's own commitment out
Part3Others(secret, round1_packages, round2_packages) ==
    [key_package |-> [identifier |-> secret.identifier,
                      signing_shares |-> round2_packages],
     public_key_package |->
         [id \in DOMAIN round1_packages |-> round1_packages[id].commitment]]

\* dkg::part3 (line 390): the key package of this participant and the
\* public key package of all the commitments
Part3(secret, round1_packages, round2_packages) ==
    [key_package |-> [identifier |-> secret.identifier,
                      signing_shares |-> round2_packages],
     public_key_package |->
         Insert([id \in DOMAIN round1_packages |-> round1_packages[id].commitment],
                secret.identifier, secret.polynomial)]

\* A &mut self method: the object it leaves and what it returns
Returns(object, returned) == [participant |-> object, result |-> returned]

\* Option::take with clone() in its place: the value stays
Kept(option) == option

\* Option::take leaves None
Take(option) == None

\* Participant::round1_package with clone() for take()
Participant_round1_package_clone(self) ==
    IF self.round1_package = None
    THEN Returns(self, Err("Dkg", "InvalidStateTransition"))
    ELSE Returns(self, Ok(self.round1_package[1]))

\* Participant::round1_package (lines 307-313)
Participant_round1_package(self) ==
    IF self.round1_package = None
    THEN Returns(self, Err("Dkg", "InvalidStateTransition"))
    ELSE Returns([self EXCEPT !.round1_package = Take(@)],
                 Ok(self.round1_package[1]))

\* Participant::receive_round1_packages (lines 316-335)
Participant_receive_round1_packages(self, round1_packages) ==
    LET others == Remove(round1_packages, self.identifier)
        taken == [self EXCEPT !.round1_secret_package = Take(@)]
    IN IF self.round1_secret_package = None THEN
           Returns(self, Err("Dkg", "InvalidStateTransition"))
       ELSE
           LET secret == self.round1_secret_package[1]
           IN IF Part2Error(secret, others) # "" THEN
                  Returns(taken, Err("Frost", Part2Error(secret, others)))
              ELSE
                  Returns([taken EXCEPT
                              !.round2_secret_package =
                                  Some([identifier |-> self.identifier,
                                        polynomial |-> secret.polynomial]),
                              !.round2_packages =
                                  Some(Part2Packages(secret, others)),
                              !.round1_packages = Some(others)],
                          Ok(Part2Packages(secret, others)))

\* Participant::receive_round2_packages (lines 338-393)
Participant_receive_round2_packages(self, round2_packages) ==
    LET taken2 == [self EXCEPT !.round2_secret_package = Take(@)]
        taken == [taken2 EXCEPT !.round1_packages = Take(@)]
    IN IF self.round2_secret_package = None THEN
           Returns(self, Err("Dkg", "InvalidStateTransition"))
       ELSE IF self.round1_packages = None THEN
           Returns(taken2, Err("Dkg", "InvalidStateTransition"))
       ELSE
           LET secret == self.round2_secret_package[1]
               round1_packages == self.round1_packages[1]
           IN IF Cardinality(DOMAIN round1_packages) # self.max_signers - 1 THEN
                  Returns(taken, Err("Frost", "InvalidMinSigners"))
              ELSE IF Cardinality(DOMAIN round1_packages)
                          # Cardinality(DOMAIN round2_packages) THEN
                  Returns(taken, Err("Frost", "IncorrectNumberOfPackages"))
              ELSE IF \E id \in DOMAIN round1_packages :
                          id \notin DOMAIN round2_packages THEN
                  Returns(taken, Err("Frost", "IncorrectPackage"))
              ELSE
                  LET round2_culprits_set ==
                          Round3Culprits(self.identifier, round1_packages,
                                         round2_packages)
                  IN IF round2_culprits_set # {} THEN
                         Returns([taken EXCEPT !.round2_culprits_set =
                                      Some(round2_culprits_set)],
                                 Err("Dkg", "InvalidSecretShares"))
                     ELSE
                         Returns(taken, Ok(Part3(secret, round1_packages,
                                                 round2_packages)))

\* Participant::round2_culprits (lines 396-402)
Participant_round2_culprits(self) ==
    IF self.round2_culprits_set = None
    THEN Returns(self, Err("Dkg", "InvalidStateTransition"))
    ELSE Returns(self, Ok(self.round2_culprits_set[1]))

\* history of a participant: the &mut self operations called so far, how
\* often each did not fail with InvalidStateTransition and how often it
\* returned Ok, counted up to MaxCount
ParticipantSites ==
    {"Participant::round1_package", "Participant::receive_round1_packages",
     "Participant::receive_round2_packages"}

Bump(counts, site) ==
    [counts EXCEPT ![site] = IF @ < MaxCount THEN @ + 1 ELSE @]

Counted(site, returned) ==
    IF site \notin ParticipantSites THEN history
    ELSE [called |-> history.called \cup {site},
          ran |-> IF returned = Err("Dkg", "InvalidStateTransition")
                  THEN history.ran ELSE Bump(history.ran, site),
          ok |-> IF returned.kind = "Ok"
                 THEN Bump(history.ok, site) ELSE history.ok]

NoCalls ==
    [called |-> {},
     ran |-> [site \in ParticipantSites |-> 0],
     ok |-> [site \in ParticipantSites |-> 0]]

\* a call on the participant
Calls(called, out) ==
    /\ call' = called
    /\ participant' = out.participant
    /\ result' = out.result
    /\ history' = Counted(called.site, out.result)
    /\ UNCHANGED <<coordinator, harness, signers, share_nonces, ttp, run>>

Round1Package ==
    Calls([site |-> "Participant::round1_package"],
          Participant_round1_package(participant))

ParticipantReceiveRound1Packages(round1_packages) ==
    Calls([site |-> "Participant::receive_round1_packages",
           round1_packages |-> round1_packages],
          Participant_receive_round1_packages(participant, round1_packages))

ParticipantReceiveRound2Packages(round2_packages) ==
    Calls([site |-> "Participant::receive_round2_packages",
           round2_packages |-> round2_packages],
          Participant_receive_round2_packages(participant, round2_packages))

Round2Culprits ==
    Calls([site |-> "Participant::round2_culprits"],
          Participant_round2_culprits(participant))

\* the round-1 maps handed to a participant: well-formed packages but for
\* the proof of knowledge
Round1Maps ==
    UNION {[senders ->
               {package \in Round1Packages : package.coefficients = 2}]
           : senders \in SUBSET (1 .. MaxParticipants)}

\* the round-2 maps handed to participant identifier: from each sender the
\* value of one of its polynomials at identifier, or the zero share
Round2MapsFor(identifier) ==
    UNION {[senders ->
               {ZeroSecretShare}
                   \cup {SecretShareOf(c, identifier) : c \in 1 .. MaxPolynomials}]
           : senders \in SUBSET (1 .. MaxParticipants)}

\* A participant created by Participant::new.
InitParticipant ==
    /\ NoCoordinator
    /\ signers = EmptyMap
    /\ share_nonces = <<>>
    /\ ttp = None
    /\ run = None
    /\ history = NoCalls
    /\ call = NoCall
    /\ result = Err("None", "")
    /\ \E identifier \in 1 .. MaxParticipants :
       \E n \in 2 .. MaxParticipants :
       \E polynomial \in 1 .. MaxPolynomials :
           participant = ParticipantNew(identifier, n, 2, polynomial)

NextParticipant ==
    \/ Round1Package
    \/ \E round1_packages \in Round1Maps :
           ParticipantReceiveRound1Packages(round1_packages)
    \/ \E round2_packages \in Round2MapsFor(participant.identifier) :
           ParticipantReceiveRound2Packages(round2_packages)
    \/ Round2Culprits

SpecParticipant == InitParticipant /\ [][NextParticipant]_vars

\* ------------------------------------------ a run of the key generation --
\* test_dkg_basic (tests.rs:23-95): n participants and the third party that
\* relays their packages.  run holds the locals of the test and what the
\* calls of each loop returned; a call that fails ends the run (the `?`).
\* The test replaces the first package of the first participant by the
\* zero share; here any one package of any one participant is replaced, or
\* none.  Each loop visits the participants in any order.
RunSize == Cardinality(DOMAIN run.participants)

\* tests.rs:55-58: the packages for the recipients in zeroed are replaced
Tampered(round2_packages, zeroed) ==
    [r \in DOMAIN round2_packages |->
        IF r \in zeroed THEN ZeroSecretShare ELSE round2_packages[r]]

Visits(loop) == {loop[k].identifier : k \in DOMAIN loop}

Visit(loop, identifier, returned) ==
    Append(loop, [identifier |-> identifier, status |-> returned])

\* a `?` has returned from the test
Aborted ==
    \/ \E k \in DOMAIN run.round1 : run.round1[k].status.kind # "Ok"
    \/ \E k \in DOMAIN run.round2 : run.round2[k].status.kind # "Ok"
    \/ \E id \in DOMAIN run.forwarded : run.forwarded[id].kind # "Ok"

\* a call on a participant of the run that is not followed by a call on
\* the third party
Alone(site, identifier, returned) ==
    /\ call' = [site |-> site, identifier |-> identifier]
    /\ result' = returned
    /\ UNCHANGED <<coordinator, harness, signers, share_nonces, ttp, participant>>

InitDkg ==
    /\ NoCoordinator
    /\ signers = EmptyMap
    /\ share_nonces = <<>>
    /\ participant = None
    /\ history = None
    /\ call = NoCall
    /\ result = Err("None", "")
    /\ \E n \in 2 .. MaxParticipants : \E t \in 2 .. n :
       \E polynomials \in [1 .. n -> 1 .. MaxPolynomials] :
           /\ ttp = TrustedThirdPartyNew(n, t, [i \in 1 .. n |-> i]).object[1]
           /\ run = [participants |->
                         [i \in 1 .. n |-> ParticipantNew(i, n, t, polynomials[i])],
                     flag |-> FALSE,
                     tampered |-> {},
                     round1 |-> <<>>,
                     round2 |-> <<>>,
                     round3 |-> EmptyMap,
                     forwarded |-> EmptyMap]

\* tests.rs:41-48
RunRound1(identifier) ==
    /\ ~Aborted
    /\ identifier \in DOMAIN run.participants
    /\ identifier \notin Visits(run.round1)
    /\ LET taken == Participant_round1_package(run.participants[identifier])
       IN /\ IF taken.result.kind = "Ok"
             THEN ReceiveRound1Package(identifier, taken.result.object[1])
             ELSE Alone("Participant::round1_package", identifier, taken.result)
          /\ run' = [run EXCEPT
                        !.participants[identifier] = taken.participant,
                        !.round1 = Visit(@, identifier, result')]
    /\ UNCHANGED history

\* tests.rs:51-67
RunRound2(identifier) ==
    /\ ~Aborted
    /\ Len(run.round1) = RunSize
    /\ identifier \in DOMAIN run.participants
    /\ identifier \notin Visits(run.round2)
    /\ LET sent == Participant_receive_round1_packages(
                       run.participants[identifier], ttp.round1_packages)
       IN IF sent.result.kind = "Ok"
          THEN \E zeroed \in SUBSET DOMAIN sent.result.object[1] :
                   /\ Cardinality(zeroed) <= 1
                   /\ run.flag => zeroed = {}
                   /\ ReceiveRound2Packages(identifier,
                          Tampered(sent.result.object[1], zeroed))
                   /\ run' = [run EXCEPT
                                 !.participants[identifier] = sent.participant,
                                 !.flag = @ \/ zeroed # {},
                                 !.tampered =
                                     @ \cup {<<identifier, r>> : r \in zeroed},
                                 !.round2 = Visit(@, identifier, result')]
          ELSE /\ Alone("Participant::receive_round1_packages", identifier,
                        sent.result)
               /\ run' = [run EXCEPT
                             !.participants[identifier] = sent.participant,
                             !.round2 = Visit(@, identifier, result')]
    /\ UNCHANGED history

\* tests.rs:69-88
RunRound3(identifier) ==
    /\ ~Aborted
    /\ Len(run.round2) = RunSize
    /\ identifier \in DOMAIN run.participants
    /\ identifier \notin DOMAIN run.round3
    /\ IF identifier \notin DOMAIN ttp.round2_packages
       THEN /\ Alone("TrustedThirdParty::round2_packages", identifier,
                     Err("None", ""))
            /\ run' = [run EXCEPT !.round3 = Insert(@, identifier, result')]
       ELSE LET got == Participant_receive_round2_packages(
                           run.participants[identifier],
                           ttp.round2_packages[identifier])
                culprits == Participant_round2_culprits(got.participant)
            IN IF got.result # Err("Dkg", "InvalidSecretShares")
               THEN /\ Alone("Participant::receive_round2_packages",
                             identifier, got.result)
                    /\ run' = [run EXCEPT
                                  !.participants[identifier] = got.participant,
                                  !.round3 = Insert(@, identifier, got.result)]
               ELSE /\ IF culprits.result.kind = "Ok"
                       THEN ReceiveRound2Culprits(identifier,
                                culprits.result.object[1])
                       ELSE Alone("Participant::round2_culprits", identifier,
                                  culprits.result)
                    /\ run' = [run EXCEPT
                                  !.participants[identifier] = got.participant,
                                  !.round3 = Insert(@, identifier, got.result),
                                  !.forwarded = Insert(@, identifier, result')]
    /\ UNCHANGED history

\* tests.rs:90-91
RunFinish ==
    /\ ~Aborted
    /\ DOMAIN run.round3 = DOMAIN run.participants
    /\ TryFinish
    /\ UNCHANGED <<run, history>>

NextDkg ==
    \/ \E identifier \in 1 .. MaxParticipants :
           \/ RunRound1(identifier)
           \/ RunRound2(identifier)
           \/ RunRound3(identifier)
    \/ RunFinish

SpecDkg == InitDkg /\ [][NextDkg]_vars

\* ------------------------------------------------------------- claims --
Shares(s) == DOMAIN session[s].signature_shares

\* the last call recorded the caller's share in the session it was bound to
ShareRecorded ==
    /\ call.session_id # 0
    /\ call.site \in {"finished", "aggregate", "started", "in_progress"}

\* the last call marked its caller malicious
Marking == call.site \in {"unsolicited", "missing", "invalid"}

\* C1: with identifiers drawn from the n signers, whatever they send, the
\* number of sessions opened never exceeds n - t + 1.
C1_SessionBound == session_counter <= max_signers - min_signers + 1

C1_Witness ==
    /\ max_signers - min_signers = 2
    /\ session_counter = 3
    /\ result.kind = "Started"

\* C2: with at least t signers following the protocol and fairly scheduled,
\* and the others sending anything or nothing, some receive call eventually
\* returns Finished.
C2_Liveness == <>(result.kind = "Finished")

C2_Witness ==
    /\ result.kind = "Finished"
    /\ Cardinality(malicious_mask) = 2
    /\ Cardinality(DOMAIN malicious_signers) = 2
    /\ session_counter = 3

\* C3: a session never holds more than t shares, and receive returns Finished
\* exactly when the share it has just verified and recorded leaves the
\* caller's session with t shares (the aggregate primitive succeeding); a
\* recorded share that leaves fewer than t gets InProgress or Started.
C3_FinishedAtQuorum ==
    /\ \A s \in DOMAIN session : Cardinality(Shares(s)) <= min_signers
    /\ call.site # "aggregate" =>
           (result.kind = "Finished" <=>
               /\ ShareRecorded
               /\ Cardinality(Shares(call.session_id)) = min_signers)

C3_Witness ==
    /\ result.kind = "Finished"
    /\ min_signers = 3
    /\ Cardinality(Shares(call.session_id)) = 3
    /\ \E s \in DOMAIN session : Cardinality(Shares(s)) = 2

\* C4: for every session at most one receive call returns Finished.
C4_ExactlyOnce == \A s \in DOMAIN finished_count : finished_count[s] <= 1

\* C5: a receive call from an identifier already in malicious_signers
\* returns MaliciousSigner with the recorded kind and changes no
\* coordinator field.
C5_Banished ==
    [][\A id \in DOMAIN malicious_signers :
          call'.identifier = id =>
              /\ result' = ErrMaliciousSigner(malicious_signers[id])
              /\ UNCHANGED coordinator]_vars

C5_Witness ==
    /\ call.site = "known"
    /\ result = ErrMaliciousSigner("InvalidSignatureShare")
    /\ too_many_returned

\* C6: no identifier leaves malicious_signers and its recorded kind never
\* changes.
C6_AppendOnly ==
    [][\A id \in DOMAIN malicious_signers :
          /\ id \in DOMAIN malicious_signers'
          /\ malicious_signers'[id] = malicious_signers[id]]_vars

C6_Witness ==
    /\ call.site = "unsolicited"
    /\ \E id \in DOMAIN malicious_signers :
           malicious_signers[id] = "InvalidSignatureShare"

\* C7 as stated: no signer is both in responsive_signers and bound in
\* signer_session.
C7_Disjoint == responsive_signers \cap DOMAIN signer_session = {}

\* C7 amended: a signer that is in responsive_signers and still bound in
\* signer_session has its share recorded in the session it is bound to, so
\* no responsive signer still owes a share.
C7_NoneOwing ==
    \A id \in responsive_signers \cap DOMAIN signer_session :
        id \in Shares(signer_session[id])

C7_Witness ==
    /\ responsive_signers \cap DOMAIN signer_session # {}
    /\ result.kind = "InProgress"

\* C8: a marking call returns TooManyMaliciousSigners exactly when
\* malicious_signers then has more than n - t entries and
\* MaliciousSigner(kind) otherwise; until TooManyMaliciousSigners has been
\* returned, malicious_signers has at most n - t entries.
C8_Quota ==
    /\ Marking =>
           IF Cardinality(DOMAIN malicious_signers) > max_signers - min_signers
           THEN result = Status("TooManyMaliciousSigners")
           ELSE result = ErrMaliciousSigner(
                    IF call.site = "unsolicited" THEN "UnsolicitedReply"
                    ELSE "InvalidSignatureShare")
    /\ ~too_many_returned =>
           Cardinality(DOMAIN malicious_signers) <= max_signers - min_signers

C8_Witness ==
    /\ max_signers = 3
    /\ min_signers = 2
    /\ Marking
    /\ Cardinality(DOMAIN malicious_signers) = 2
    /\ result.kind = "TooManyMaliciousSigners"

\* C9: once TooManyMaliciousSigners has been returned, no receive call
\* returns Started or Finished.
C9_Fatal == too_many_returned => result.kind \notin {"Started", "Finished"}

\* C10: no Started result lists a signer that is in malicious_signers.
C10_Frozen ==
    result.kind = "Started" => result.signers \cap DOMAIN malicious_signers = {}

\* C11: a receive call that registers its caller returns Started exactly
\* when the caller brings responsive_signers to t members; the signers of
\* the Started result are then exactly those t responsive signers and
\* responsive_signers is left empty; a registration that leaves fewer than t
\* returns InProgress and keeps them.  Until the first session is opened
\* and while nobody is marked, every call is such a registration, so t
\* distinct signers get InProgress t - 1 times and then Started.
C11_Threshold ==
    [][LET registered == responsive_signers \cup {call'.identifier}
       IN /\ result'.kind = "Started" =>
                 /\ Cardinality(registered) = min_signers
                 /\ result'.signers = registered
                 /\ responsive_signers' = {}
          /\ result'.kind = "InProgress" =>
                 /\ Cardinality(registered) < min_signers
                 /\ responsive_signers' = registered
          /\ Cardinality(responsive_signers') < min_signers
          /\ (session_counter = 0 /\ malicious_signers' = EmptyMap) =>
                 /\ result'.kind \in {"InProgress", "Started"}
                 /\ call'.identifier \notin responsive_signers
                 /\ DOMAIN latest_signing_commitments' = registered]_vars

C11_Witness ==
    /\ min_signers = 3
    /\ session_counter = 1
    /\ result.kind = "Started"
    /\ Cardinality(result.signers) = 3
    /\ malicious_signers = EmptyMap
    /\ responsive_signers = {}

\* C12: when at most n - t signers do not follow the protocol, whichever
\* they are and whatever they send, no receive call returns
\* TooManyMaliciousSigners.
C12_NeverTooMany == ~too_many_returned /\ result.kind # "TooManyMaliciousSigners"

C12_Witness ==
    /\ max_signers - min_signers = 2
    /\ Cardinality(malicious_mask) = 2
    /\ DOMAIN malicious_signers = malicious_mask
    /\ Marking

\* the last call was a constructor, with valid parameters, with a
\* participant list without duplicates
Constructing == call.site \in {"Coordinator::new", "TrustedThirdParty::new"}
ValidParameters == 2 <= call.min_signers /\ call.min_signers <= call.max_signers
DistinctParticipants ==
    \A i \in DOMAIN call.participants : \A j \in DOMAIN call.participants :
        i # j => call.participants[i] # call.participants[j]

\* the parameter error the claim names
ClaimedParameterError ==
    IF call.min_signers >= 2 /\ call.max_signers < 2 THEN "InvalidMaxSigners"
    ELSE "InvalidMinSigners"

\* C13 as stated: Coordinator::new and TrustedThirdParty::new succeed if
\* and only if 2 <= t <= n, and otherwise return the FROST parameter error
\* and create no object.
C13_IffParameters ==
    Constructing =>
        /\ result.kind = "Ok" <=> ValidParameters
        /\ result.kind # "Ok" =>
               /\ result.kind = "Frost"
               /\ result.err = ClaimedParameterError
               /\ result.object = None

\* C13 amended: Coordinator::new succeeds if and only if 2 <= t <= n;
\* TrustedThirdParty::new succeeds if and only if 2 <= t <= n and no
\* identifier occurs twice in the participant list, and returns
\* DuplicateParticipants when only the latter fails.  With t < 2 or t > n
\* both return InvalidMinSigners, InvalidMaxSigners when t >= 2 and n < 2.
\* A failed call creates no object; a created coordinator or third party
\* has all its sets and maps empty, and the coordinator session_counter = 0.
C13_Validation ==
    Constructing =>
        /\ result.kind = "Ok" <=>
               /\ ValidParameters
               /\ call.site = "TrustedThirdParty::new" => DistinctParticipants
        /\ ~ValidParameters =>
               result = Err("Frost", ClaimedParameterError)
        /\ (ValidParameters /\ result.kind # "Ok") =>
               result = Err("Dkg", "DuplicateParticipants")
        /\ (result.kind = "Ok" /\ call.site = "Coordinator::new") =>
               result.object =
                   Some([max_signers |-> call.max_signers,
                         min_signers |-> call.min_signers,
                         responsive_signers |-> {},
                         malicious_signers |-> EmptyMap,
                         latest_signing_commitments |-> EmptyMap,
                         session_counter |-> 0,
                         signer_session |-> EmptyMap,
                         session |-> EmptyMap])
        /\ (result.kind = "Ok" /\ call.site = "TrustedThirdParty::new") =>
               LET created == result.object[1]
               IN /\ created.max_signers = call.max_signers
                  /\ created.min_signers = call.min_signers
                  /\ created.participants = call.participants
                  /\ created.round1_packages = EmptyMap
                  /\ created.round2_packages = EmptyMap
                  /\ created.round2_participants_set = {}
                  /\ created.round2_culprits_set = {}

C13_Witness ==
    /\ call.site = "TrustedThirdParty::new"
    /\ call.max_signers = 3
    /\ call.min_signers = 2
    /\ Len(call.participants) = 3
    /\ result.kind = "Ok"

\* C14: after every call of Signer::receive, whether it returns a share or
\* an error, the signer holds nonces (and commitments) other than those it
\* held before the call.
C14_AlwaysRotates ==
    [][call'.site = "Signer::receive" =>
          SigningCommitmentsOf(signers'[call'.identifier])
              # SigningCommitmentsOf(signers[call'.identifier])]_vars

\* C15: no two signature shares returned by a signer were produced from
\* the same nonces, whatever packages it is handed.
C15_SingleUse ==
    \A i \in DOMAIN share_nonces : \A j \in DOMAIN share_nonces :
        (i # j /\ share_nonces[i].identifier = share_nonces[j].identifier)
            => share_nonces[i].signing_nonces # share_nonces[j].signing_nonces

\* the signer of the last call has returned two shares and is handed again
\* the package of its first one
C15_Witness ==
    /\ call.site = "Signer::receive"
    /\ result.kind # "Ok"
    /\ \E i \in DOMAIN share_nonces : \E j \in DOMAIN share_nonces :
           /\ i < j
           /\ share_nonces[i].identifier = call.identifier
           /\ share_nonces[j].identifier = call.identifier
           /\ share_nonces[i].signature_share.pkg = call.signing_package
           /\ DOMAIN share_nonces[j].signature_share.pkg
                  = DOMAIN call.signing_package

\* C16: an accepted receive_round1_package returns FinishedRound1 exactly
\* when the third party then holds round-1 packages of n participants and
\* InProgress otherwise; the package is stored for its sender, a sender
\* that had a stored package has it replaced and the count stays.
C16_Round1Count ==
    [][(call'.site = "receive_round1_package" /\ result'.kind = "Ok") =>
          LET before == ttp.round1_packages
              after == ttp'.round1_packages
          IN /\ result' = DkgStatus("FinishedRound1") <=>
                    Cardinality(DOMAIN after) = ttp.max_signers
             /\ result' \in {DkgStatus("FinishedRound1"), DkgStatus("InProgress")}
             /\ DOMAIN after = (DOMAIN before) \cup {call'.identifier}
             /\ DOMAIN after \subseteq ttp.participants_set
             /\ after[call'.identifier] = call'.round1_package
             /\ \A id \in DOMAIN before :
                    id # call'.identifier => after[id] = before[id]
             /\ call'.identifier \in DOMAIN before =>
                    Cardinality(DOMAIN after) = Cardinality(DOMAIN before)]_vars

\* a third re-submission, with another package, once all three are in
C16_Witness ==
    /\ call.site = "receive_round1_package"
    /\ call.replaced
    /\ result = DkgStatus("FinishedRound1")
    /\ ttp.max_signers = 3
    /\ ttp.round1_packages[call.identifier].commitment = 2
    /\ \E id \in DOMAIN ttp.round1_packages :
           ttp.round1_packages[id].commitment = 1

\* C17: an accepted receive_round2_packages returns FinishedRound2 exactly
\* when round2_participants_set then has n senders and InProgress
\* otherwise; a sender that submits again is counted once.
C17_Round2Count ==
    [][(call'.site = "receive_round2_packages" /\ result'.kind = "Ok") =>
          LET before == ttp.round2_participants_set
              after == ttp'.round2_participants_set
          IN /\ result' = DkgStatus("FinishedRound2") <=>
                    Cardinality(after) = ttp.max_signers
             /\ result' \in {DkgStatus("FinishedRound2"), DkgStatus("InProgress")}
             /\ after = before \cup {call'.identifier}
             /\ after \subseteq ttp.participants_set]_vars

C17_Witness ==
    /\ call.site = "receive_round2_packages"
    /\ call.repeated
    /\ result = DkgStatus("FinishedRound2")
    /\ ttp.max_signers = 3
    /\ ttp.round2_participants_set = {1, 2, 3}

\* C18: a receive_round2_culprits(id, alleged) call with known identifiers
\* adds to round2_culprits_set exactly the senders ell in alleged of which
\* the third party stores a round-2 package for id whose share fails
\* verification against the stored round-1 commitment of ell, and nothing
\* else.
C18_Attribution ==
    [][(/\ call'.site = "receive_round2_culprits"
        /\ call'.identifier \in ttp.participants_set
        /\ call'.round2_culprits \subseteq ttp.participants_set) =>
          LET id == call'.identifier
              convicted ==
                  {ell \in call'.round2_culprits :
                      /\ id \in DOMAIN ttp.round2_packages
                      /\ ell \in DOMAIN ttp.round2_packages[id]
                      /\ ell \in DOMAIN ttp.round1_packages
                      /\ ~SecretShareVerify(id, ttp.round2_packages[id][ell],
                              ttp.round1_packages[ell].commitment)}
          IN ttp'.round2_culprits_set
                 = ttp.round2_culprits_set \cup convicted]_vars

\* C19: try_finish returns FinishedRound3 if round2_culprits_set is empty
\* and fails with InvalidSecretShares otherwise, and changes nothing; no
\* operation removes a member of round2_culprits_set, so a try_finish that
\* failed fails again whenever it is called later.
C19_TryFinish ==
    [][/\ call'.site = "try_finish" =>
              /\ ttp' = ttp
              /\ result' = IF ttp.round2_culprits_set = {}
                           THEN DkgStatus("FinishedRound3")
                           ELSE Err("Dkg", "InvalidSecretShares")
       /\ ttp.round2_culprits_set \subseteq ttp'.round2_culprits_set]_vars

C19_Witness ==
    /\ call.site = "try_finish"
    /\ result = Err("Dkg", "InvalidSecretShares")
    /\ Cardinality(ttp.round2_culprits_set) = 2
    /\ Cardinality(DOMAIN ttp.round1_packages) < ttp.max_signers

\* C20: when Participant::receive_round2_packages gets to verify the
\* shares, its culprits are exactly the senders whose share fails
\* verification against the commitment of their stashed round-1 package;
\* with culprits it fails with InvalidSecretShares, returns no key package
\* and stores exactly that set, which round2_culprits() returns from then
\* on; nothing else stores a culprit set, so round2_culprits() fails with
\* InvalidStateTransition before round 3, after a successful round 3 and
\* after a round 3 that failed otherwise.
C20_Culprits ==
    [][/\ call'.site = "Participant::receive_round2_packages" =>
              LET delivered == call'.round2_packages
                  verifying ==
                      /\ participant.round2_secret_package # None
                      /\ participant.round1_packages # None
                      /\ Cardinality(DOMAIN participant.round1_packages[1])
                             = participant.max_signers - 1
                      /\ DOMAIN participant.round1_packages[1] = DOMAIN delivered
                  failing ==
                      {ell \in DOMAIN delivered :
                          ~SecretShareVerify(participant.identifier, delivered[ell],
                               participant.round1_packages[1][ell].commitment)}
              IN IF verifying /\ failing # {}
                 THEN /\ result' = Err("Dkg", "InvalidSecretShares")
                      /\ participant'.round2_culprits_set = Some(failing)
                 ELSE /\ result'.kind = "Ok" <=> verifying
                      /\ participant'.round2_culprits_set
                             = participant.round2_culprits_set
       /\ call'.site = "Participant::round2_culprits" =>
              /\ participant' = participant
              /\ result' = IF participant.round2_culprits_set = None
                           THEN Err("Dkg", "InvalidStateTransition")
                           ELSE Ok(participant.round2_culprits_set[1])
       /\ participant'.round2_culprits_set # participant.round2_culprits_set =>
              /\ call'.site = "Participant::receive_round2_packages"
              /\ result' = Err("Dkg", "InvalidSecretShares")
              /\ participant.round2_culprits_set = None
              /\ participant'.round2_culprits_set # Some({})]_vars

C20_Witness ==
    /\ call.site = "Participant::round2_culprits"
    /\ result = Ok({2, 3})
    /\ participant.identifier = 1
    /\ participant.round2_culprits_set = Some({2, 3})

\* the run has visited every participant in the third loop
RunComplete == DOMAIN run.round3 = DOMAIN run.participants

\* C21: in a run in which one sender s has replaced its round-2 package
\* for one recipient r by the zero share, receive_round2_packages of r
\* fails with InvalidSecretShares and culprits exactly {s}, which forwarded
\* to the third party make its culprit set exactly {s}; round 3 of every
\* other participant succeeds, and try_finish fails with
\* InvalidSecretShares.
C21_OneTampered ==
    \A pair \in run.tampered :
        LET s == pair[1]
            r == pair[2]
        IN /\ run.tampered = {pair}
           /\ s # r
           /\ \A id \in DOMAIN run.round3 \ {r} :
                  /\ run.round3[id].kind = "Ok"
                  /\ run.participants[id].round2_culprits_set = None
           /\ DOMAIN run.forwarded \subseteq {r}
           /\ IF r \in DOMAIN run.round3
              THEN /\ run.round3[r] = Err("Dkg", "InvalidSecretShares")
                   /\ run.participants[r].round2_culprits_set = Some({s})
                   /\ run.forwarded = Insert(EmptyMap, r, DkgStatus("InProgress"))
                   /\ ttp.round2_culprits_set = {s}
              ELSE ttp.round2_culprits_set = {}
           /\ call.site = "try_finish" =>
                  /\ RunComplete
                  /\ result = Err("Dkg", "InvalidSecretShares")

C21_Witness ==
    /\ RunSize = 3
    /\ run.tampered = {<<3, 1>>}
    /\ RunComplete
    /\ ttp.round2_culprits_set = {3}
    /\ call.site = "try_finish"
    /\ result = Err("Dkg", "InvalidSecretShares")

\* C22: in a run without tampering the third party returns FinishedRound1
\* on the n-th round-1 package and FinishedRound2 on the n-th round-2
\* submission (InProgress before), receive_round2_packages of every
\* participant succeeds with no culprits, all of them yield the same
\* PublicKeyPackage, and try_finish returns FinishedRound3.
C22_HappyPath ==
    run.tampered = {} =>
        /\ \A k \in DOMAIN run.round1 :
               run.round1[k].status =
                   IF k = RunSize THEN DkgStatus("FinishedRound1")
                   ELSE DkgStatus("InProgress")
        /\ \A k \in DOMAIN run.round2 :
               run.round2[k].status =
                   IF k = RunSize THEN DkgStatus("FinishedRound2")
                   ELSE DkgStatus("InProgress")
        /\ \A id \in DOMAIN run.round3 :
               /\ run.round3[id].kind = "Ok"
               /\ run.participants[id].round2_culprits_set = None
               /\ run.round3[id].object[1].key_package.identifier = id
        /\ \A i \in DOMAIN run.round3 : \A j \in DOMAIN run.round3 :
               run.round3[i].object[1].public_key_package
                   = run.round3[j].object[1].public_key_package
        /\ run.forwarded = EmptyMap
        /\ ttp.round2_culprits_set = {}
        /\ call.site = "try_finish" =>
               /\ RunComplete
               /\ result = DkgStatus("FinishedRound3")

C22_Witness ==
    /\ RunSize = 3
    /\ ttp.min_signers = 2
    /\ run.tampered = {}
    /\ RunComplete
    /\ run.round1[1].identifier = 3
    /\ run.participants[1].round1_packages = None
    /\ \E i \in 1 .. 3 : \E j \in 1 .. 3 :
           run.round3[1].object[1].public_key_package[i]
               # run.round3[1].object[1].public_key_package[j]
    /\ call.site = "try_finish"
    /\ result = DkgStatus("FinishedRound3")

\* C23: the first round1_package call on a participant returns its round-1
\* package and every later one fails with InvalidStateTransition, whatever
\* other operations were called before or in between.
C23_TakeOnce ==
    [][call'.site = "Participant::round1_package" =>
          IF "Participant::round1_package" \notin history.called
          THEN /\ participant.round1_package # None
               /\ result' = Ok(participant.round1_package[1])
               /\ result'.object[1].proof_of_knowledge
          ELSE result' = Err("Dkg", "InvalidStateTransition")]_vars

\* a second take, after both receive operations ran
C23_Witness ==
    /\ call.site = "Participant::round1_package"
    /\ result = Err("Dkg", "InvalidStateTransition")
    /\ history.called = ParticipantSites
    /\ history.ok["Participant::round1_package"] = 1
    /\ history.ok["Participant::receive_round2_packages"] = 1

\* C24: receive_round1_packages called a second time, receive_round2_packages
\* called before a receive_round1_packages that succeeded, and
\* receive_round2_packages called after an attempt that succeeded, found
\* culprits or failed shape validation, all fail with
\* InvalidStateTransition; neither round runs twice on a participant.
C24_Linear ==
    [][LET round1 == "Participant::receive_round1_packages"
           round2 == "Participant::receive_round2_packages"
           invalid == Err("Dkg", "InvalidStateTransition")
       IN /\ (call'.site = round1 /\ round1 \in history.called) =>
                 result' = invalid
          /\ (call'.site = round2 /\ history.ok[round1] = 0) =>
                 result' = invalid
          /\ (call'.site = round2 /\ history.ran[round2] > 0) =>
                 result' = invalid
          /\ history'.ran[round1] <= 1
          /\ history'.ran[round2] <= 1]_vars

\* a second round 3 after one that failed shape validation
C24_Witness ==
    /\ call.site = "Participant::receive_round2_packages"
    /\ result = Err("Dkg", "InvalidStateTransition")
    /\ history.ok["Participant::receive_round1_packages"] = 1
    /\ history.ran["Participant::receive_round2_packages"] = 1
    /\ history.ok["Participant::receive_round2_packages"] = 0
    /\ participant.round2_culprits_set = None

\* the arguments of the last receive call
Caller == history'.arguments.identifier
Supplied == history'.arguments.signing_commitments
Delivered == history'.arguments.signature_share

\* the caller is bound to a session, and its share is absent or is not the
\* share of the caller for the signing package of that session
Bound == Caller \in DOMAIN signer_session
Failing ==
    \/ Delivered.kind = "None"
    \/ Caller \notin VerifyingShares
    \/ Delivered # Share(Caller, session[signer_session[Caller]].signing_package)

C26_MarkingFrame ==
    [][(/\ Caller \notin DOMAIN malicious_signers
        /\ result'.kind \in {"MaliciousSigner", "TooManyMaliciousSigners"}) =>
          /\ DOMAIN malicious_signers' = (DOMAIN malicious_signers) \cup {Caller}
          /\ \A id \in DOMAIN malicious_signers :
                 malicious_signers'[id] = malicious_signers[id]
          /\ UNCHANGED <<responsive_signers, latest_signing_commitments,
                         signer_session, session, session_counter,
                         max_signers, min_signers>>]_vars

\* a marked caller that stays in responsive_signers, with a pending session
\* that holds a share, and whose new commitment is not stored
C26_Witness ==
    /\ Marking
    /\ result.kind = "TooManyMaliciousSigners"
    /\ history.arguments.identifier \in responsive_signers
    /\ history.arguments.identifier \in DOMAIN signer_session
    /\ history.arguments.signing_commitments
           # latest_signing_commitments[history.arguments.identifier]
    /\ \E s \in DOMAIN session : Shares(s) # {}

\* C27: the signing package of every opened session holds commitments for
\* exactly the signers of its Started result, each the commitment of that
\* signer's most recent accepted receive call; and of two sessions with a
\* common signer the later was opened after a further accepted receive call
\* of that signer, so no commitment placed in a session is placed in a
\* later one unless the signer sent it again.
C27_Fresh ==
    [][/\ result'.kind = "Started" =>
              /\ DOMAIN result'.signing_package = result'.signers
              /\ \A id \in result'.signers :
                     result'.signing_package[id] = history'.accepted[id]
              /\ session'[session_counter'].signing_package
                     = result'.signing_package
       /\ \A s \in DOMAIN session' :
              /\ s \in DOMAIN history'.opened
              /\ DOMAIN session'[s].signing_package = DOMAIN history'.opened[s]
              /\ s \in DOMAIN session =>
                     session'[s].signing_package = session[s].signing_package
       /\ \A s1 \in DOMAIN session' : \A s2 \in DOMAIN session' :
              s1 < s2 =>
                  \A id \in (DOMAIN history'.opened[s1])
                                \cap (DOMAIN history'.opened[s2]) :
                      history'.opened[s1][id] < history'.opened[s2][id]]_vars

\* a second session with a signer of the first, which sent the commitment
\* of the first session again with its share
C27_Witness ==
    /\ result.kind = "Started"
    /\ session_counter = 2
    /\ Shares(1) # {}
    /\ \E id \in result.signers :
           /\ id \in DOMAIN session[1].signing_package
           /\ session[1].signing_package[id] = session[2].signing_package[id]
           /\ history.opened[2][id] = 2

\* the sessions whose Started result listed the signer, and the last of them
SessionsOf(opened, id) == {s \in DOMAIN opened : id \in DOMAIN opened[s]}
LastSessionOf(opened, id) ==
    CHOOSE s \in SessionsOf(opened, id) :
        \A other \in SessionsOf(opened, id) : other <= s

\* C28: signer_session[id] is the most recently opened session whose
\* signers contain id (and id has no entry before its first session); the
\* share of a caller that is neither marked nor responsive is verified
\* against the signing package of that session, and recorded there if it
\* is the caller's share for it; no call changes the shares of another
\* session.
C28_OnePending ==
    [][/\ (/\ Caller \notin DOMAIN malicious_signers
           /\ Caller \notin responsive_signers
           /\ SessionsOf(history.opened, Caller) # {}) =>
              LET last == LastSessionOf(history.opened, Caller)
              IN IF Delivered = Share(Caller, session[last].signing_package)
                 THEN session'[last].signature_shares =
                          Insert(session[last].signature_shares, Caller, Delivered)
                 ELSE /\ Caller \in DOMAIN malicious_signers'
                      /\ session' = session
       /\ \A id \in Identifiers :
              IF SessionsOf(history'.opened, id) = {}
              THEN id \notin DOMAIN signer_session'
              ELSE /\ id \in DOMAIN signer_session'
                   /\ signer_session'[id] = LastSessionOf(history'.opened, id)
       /\ \A s \in DOMAIN session' :
              IF s \notin DOMAIN session
              THEN session'[s].signature_shares = EmptyMap
              ELSE session'[s].signature_shares # session[s].signature_shares =>
                       /\ SessionsOf(history.opened, Caller) # {}
                       /\ s = LastSessionOf(history.opened, Caller)
                       /\ Delivered = Share(Caller, session[s].signing_package)
                       /\ session'[s].signature_shares =
                              Insert(session[s].signature_shares, Caller, Delivered)]_vars

\* a signer of two sessions whose share for the second one is recorded
C28_Witness ==
    /\ call.session_id = 2
    /\ call.identifier \in DOMAIN history.opened[1]
    /\ call.identifier \in Shares(1)
    /\ call.identifier \in Shares(2)
    /\ result.kind = "InProgress"

\* C29: session_counter is 0 on construction and grows by exactly 1 in
\* each call that returns Started and in no other; the sessions therefore
\* have the identifiers 1, 2, ..., session_counter in the order they were
\* opened; with identifiers drawn from the n signers the counter stays
\* within n - t + 1 and does not wrap around 2^16.
C29_SessionIds ==
    /\ session_counter = 0
    /\ session = EmptyMap
    /\ [][/\ session_counter' = IF result'.kind = "Started"
                                THEN session_counter + 1
                                ELSE session_counter
          /\ DOMAIN session' = 1 .. session_counter'
          /\ result'.kind = "Started" =>
                 /\ DOMAIN session' = (DOMAIN session) \cup {session_counter + 1}
                 /\ session'[session_counter + 1].signing_package
                        = result'.signing_package
          /\ session_counter' <= max_signers - min_signers + 1
          /\ session_counter' < SessionIdModulus]_vars

C29_Witness ==
    /\ max_signers = 4
    /\ min_signers = 2
    /\ result.kind = "Started"
    /\ session_counter = 3
    /\ DOMAIN session = {1, 2, 3}
    /\ Shares(1) # {}
    /\ Shares(2) # {}

\* C30 as stated: until a call returns Finished, latest_signing_commitments
\* holds for every signer that has called receive the commitment of its
\* most recent call.
C30_LastSupplied ==
    result.kind # "Finished" =>
        \A id \in DOMAIN history.supplied :
            /\ id \in DOMAIN latest_signing_commitments
            /\ latest_signing_commitments[id] = history.supplied[id]

\* C30 amended: latest_signing_commitments[id] is overwritten with the
\* supplied commitment by every receive call from id that returns
\* InProgress or Started, and changed by no other call, so it always holds
\* the commitment of the most recent such call of every signer that made
\* one.
C30_LastAccepted ==
    [][/\ latest_signing_commitments' =
              IF result'.kind \in {"InProgress", "Started"}
              THEN Insert(latest_signing_commitments, Caller, Supplied)
              ELSE latest_signing_commitments
       /\ latest_signing_commitments' = history'.accepted]_vars

\* a signer whose second accepted call replaced its commitment, and a
\* marked signer whose last commitment was not stored
C30_Witness ==
    /\ result.kind = "InProgress"
    /\ history.receipts[call.identifier] = 2
    /\ latest_signing_commitments[call.identifier] = 2
    /\ session[1].signing_package[call.identifier] = 1
    /\ \E id \in DOMAIN malicious_signers :
           /\ id \in DOMAIN latest_signing_commitments
           /\ latest_signing_commitments[id] # history.supplied[id]

\* C31: a signer that follows the protocol (one first commitment without a
\* share, then one reply per signing package it is sent, with the share of
\* Signer::receive for that package and the commitment of its new nonces)
\* is never in malicious_signers, whatever the other signers send and in
\* whatever order the calls arrive.
C31_HonestNeverBanished == DOMAIN malicious_signers \subseteq malicious_mask

\* a signer that follows the protocol has just answered its second signing
\* package while two others are marked, one of each kind
C31_Witness ==
    /\ call.identifier \in Identifiers \ malicious_mask
    /\ signers[call.identifier].signing_nonces = 3
    /\ call.session_id = 2
    /\ ShareRecorded
    /\ \E a, b \in DOMAIN malicious_signers :
           /\ malicious_signers[a] = "UnsolicitedReply"
           /\ malicious_signers[b] = "InvalidSignatureShare"

\* C32: every share recorded in a session comes from a signer of that
\* session's Started result, is the share of that signer for the session's
\* signing package, and was recorded by a call of that signer made while it
\* was bound to that session; a call returns Finished only when its
\* caller's session then holds such shares of t distinct signers of it.
C32_Provenance ==
    [][/\ \A s \in DOMAIN session' :
          \A id \in DOMAIN session'[s].signature_shares :
              /\ s \in DOMAIN history'.opened
              /\ id \in DOMAIN history'.opened[s]
              /\ id \in DOMAIN session'[s].signing_package
              /\ session'[s].signature_shares[id] =
                     Share(id, session'[s].signing_package)
              /\ (s \notin DOMAIN session \/ id \notin Shares(s)) =>
                     /\ id = Caller
                     /\ id \in DOMAIN signer_session
                     /\ signer_session[id] = s
                     /\ s \in DOMAIN session
                     /\ Delivered = Share(id, session[s].signing_package)
       /\ result'.kind = "Finished" =>
              /\ Bound
              /\ LET s == signer_session[Caller]
                 IN /\ Caller \in DOMAIN session'[s].signature_shares
                    /\ DOMAIN session'[s].signature_shares
                           \subseteq DOMAIN history'.opened[s]
                    /\ Cardinality(DOMAIN session'[s].signature_shares)
                           = min_signers]_vars

\* the second session is finished by the shares of its signers while the
\* first one holds the share of a signer that is in both
C32_Witness ==
    /\ result.kind = "Finished"
    /\ call.session_id = 2
    /\ Shares(2) = DOMAIN history.opened[2]
    /\ Shares(1) \cap Shares(2) # {}

\* C33: between receive calls responsive_signers holds fewer than t
\* signers: the call that brings it to t empties it.
C33_BelowThreshold == Cardinality(responsive_signers) < min_signers

\* t - 1 = 2 responsive signers after a session was opened, one of them
\* marked since
C33_Witness ==
    /\ min_signers = 3
    /\ session_counter >= 1
    /\ Cardinality(responsive_signers) = 2
    /\ responsive_signers \cap DOMAIN malicious_signers # {}
    /\ result.kind = "InProgress"

\* C34: only identifiers that have a verifying share in the public key
\* package are in responsive_signers, among the signers of a Started result
\* or in the signing package of a session.
C34_KnownOnly ==
    /\ responsive_signers \subseteq VerifyingShares
    /\ result.kind = "Started" => result.signers \subseteq VerifyingShares
    /\ \A s \in DOMAIN session :
           DOMAIN session[s].signing_package \subseteq VerifyingShares

\* C35: receive_round1_package, receive_round2_packages and
\* receive_round2_culprits called with an identifier that is not in the
\* participant list, and receive_round2_culprits called with an alleged
\* culprit that is not in it, return UnknownParticipant and leave the third
\* party unchanged.
C35_UnknownParticipant ==
    [][(/\ call'.site \in {"receive_round1_package", "receive_round2_packages",
                           "receive_round2_culprits"}
        /\ \/ call'.identifier \notin Range(ttp.participants)
           \/ /\ call'.site = "receive_round2_culprits"
              /\ ~(call'.round2_culprits \subseteq Range(ttp.participants)))
       => /\ result' = Err("Dkg", "UnknownParticipant")
          /\ ttp' = ttp]_vars

\* a participant accuses an identifier outside the list once round 2 has
\* stored packages for it
C35_Witness ==
    /\ call.site = "receive_round2_culprits"
    /\ call.identifier \in Range(ttp.participants)
    /\ ~(call.round2_culprits \subseteq Range(ttp.participants))
    /\ call.round2_culprits \cap Range(ttp.participants) # {}
    /\ call.identifier \in DOMAIN ttp.round2_packages
    /\ ttp.round1_packages # EmptyMap
    /\ result = Err("Dkg", "UnknownParticipant")

\* C36: for a third party whose participant list has n identifiers,
\* receive_round2_packages(id, pkgs) is accepted exactly when id is a
\* participant and the keys of pkgs are the participants other than id;
\* after acceptance round2_packages[r][id] is the package of pkgs
\* addressed to r, for every other participant r; no recipient's map has an
\* entry under its own identifier; and once all n senders were accepted the
\* map of every participant has exactly the other n - 1 as keys.
C36_Routing ==
    [][(/\ call'.site = "receive_round2_packages"
        /\ Len(ttp.participants) = ttp.max_signers) =>
          LET id == call'.identifier
              pkgs == history'
              all == Range(ttp.participants)
              stored == ttp'.round2_packages
          IN /\ result'.kind = "Ok" <=>
                    (id \in all /\ DOMAIN pkgs = all \ {id})
             /\ result'.kind = "Ok" =>
                    \A r \in all \ {id} :
                        /\ r \in DOMAIN stored
                        /\ id \in DOMAIN stored[r]
                        /\ stored[r][id] = pkgs[r]
             /\ \A r \in DOMAIN stored : r \notin DOMAIN stored[r]
             /\ ttp'.round2_participants_set = all =>
                    /\ DOMAIN stored = all
                    /\ \A r \in all : DOMAIN stored[r] = all \ {r}]_vars

\* the third of three senders is accepted and every participant has the
\* packages of the other two
C36_Witness ==
    /\ call.site = "receive_round2_packages"
    /\ ttp.max_signers = 3
    /\ Len(ttp.participants) = 3
    /\ result = DkgStatus("FinishedRound2")
    /\ DOMAIN history = Range(ttp.participants) \ {call.identifier}
    /\ \A r \in 1 .. 3 : DOMAIN ttp.round2_packages[r] = (1 .. 3) \ {r}

C38_RoundOrder ==
    /\ result = DkgStatus("FinishedRound2") =>
           "FinishedRound1" \in Range(history)
    /\ result = DkgStatus("FinishedRound3") =>
           "FinishedRound2" \in Range(history)

\* C39: an operation of the third party that returns an error leaves
\* round1_packages, round2_packages, round2_participants_set and
\* round2_culprits_set as they were.
C39_ErrorsChangeNothing ==
    [][result'.kind # "Ok" =>
          /\ ttp'.round1_packages = ttp.round1_packages
          /\ ttp'.round2_packages = ttp.round2_packages
          /\ ttp'.round2_participants_set = ttp.round2_participants_set
          /\ ttp'.round2_culprits_set = ttp.round2_culprits_set]_vars

====
